---- MODULE Spec2Model ----
(***************************************************************************)
(* Model of air_temp_for_trip.py: a batch script that parses a trip log,  *)
(* maps its locations to a 2.5 degree grid, samples a 4-per-day dataset   *)
(* at 6-hour aligned dates, upsamples to hourly rows and writes a report. *)
(*                                                                         *)
(* Units.  Coordinates are integers in hundredths of a degree (42.24 is   *)
(* 4224).  Timestamps are whole hours counted from 2018-01-01 00:00:00;   *)
(* 2018 and 2019 both have 365 days.  Indices returned by the code are    *)
(* kept 0-based as in Python; TLA+ sequences are 1-based.                 *)
(*                                                                         *)
(* Dataset values and interpolated values are symbolic: a sample is the   *)
(* record of the indices it was read at, an hourly value is the record of *)
(* the level and of the x coordinate it was evaluated at.                 *)
(***************************************************************************)
EXTENDS Integers, Sequences, FiniteSets, TLC

VARIABLES
    pc,                \* position in main(), or in a single function call
    args,              \* parsed command line: nc_file, trip_file (its lines)
    line_no,           \* lines of the trip file consumed so far
    trip_by_location,  \* insertion-ordered dict, as a sequence of groups
    trip_by_date,      \* insertion-ordered dict, as a sequence of <<date, group>>
    trip_end_date,     \* None or the last parsed date
    dataset_opened,    \* netCDF4.Dataset(...) has been called
    nc_data,           \* level -> sequence of symbolic samples
    processed_dates,   \* set of 6-hour dates already sampled
    loc_no,            \* LocationGroups consumed by the sampling loop
    hourly,            \* level -> sequence of symbolic hourly values
    out_lines,         \* lines written to the output file (header first)
    out_opened,        \* the output file has been opened for writing
    call,              \* arguments of a single function call under check
    ret                \* its return value

vars == <<pc, args, line_no, trip_by_location, trip_by_date, trip_end_date,
          dataset_opened, nc_data, processed_dates, loc_no, hourly,
          out_lines, out_opened, call, ret>>

\* None, as an integer outside every coordinate and date range of the model
None == 0 - 999999

(***************************************************************************)
(* Constants of the program                                                *)
(***************************************************************************)
NC_LON == [n \in 1..144 |-> 0 + 250 * (n - 1)]

NC_LAT == [n \in 1..73 |-> 9000 - 250 * (n - 1)]

NC_LEVELS_COUNT == 17

(***************************************************************************)
(* Calendar arithmetic of datetime on whole-hour timestamps                *)
(***************************************************************************)
Year(date) == 2018 + (date \div 8760)

tm_yday(date) == ((date \div 24) % 365) + 1

Midnight(date) == (date \div 24) * 24

TimedeltaDays(end, start) == (end - start) \div 24

(***************************************************************************)
(* approximate_position                                                    *)
(***************************************************************************)
fabs(x) == IF x < 0 THEN -x ELSE x

\* the first element of seq[lo..hi] with the smallest key |p - cur|; the
\* scan of min() is split in halves to keep the evaluation shallow, the
\* earlier half winning a tie as the earlier element does in the scan
RECURSIVE MinByKeyRange(_, _, _, _)
MinByKeyRange(seq, cur, lo, hi) ==
    IF lo = hi THEN seq[lo]
    ELSE LET mid == (lo + hi) \div 2
             left == MinByKeyRange(seq, cur, lo, mid)
             right == MinByKeyRange(seq, cur, mid + 1, hi)
         IN  IF fabs(left - cur) <= fabs(right - cur) THEN left ELSE right

\* the last element of seq[lo..hi] with the smallest key
RECURSIVE MinByKeyLastRange(_, _, _, _)
MinByKeyLastRange(seq, cur, lo, hi) ==
    IF lo = hi THEN seq[lo]
    ELSE LET mid == (lo + hi) \div 2
             left == MinByKeyLastRange(seq, cur, lo, mid)
             right == MinByKeyLastRange(seq, cur, mid + 1, hi)
         IN  IF fabs(left - cur) < fabs(right - cur) THEN left ELSE right

MinByKeyLast(seq, cur) == MinByKeyLastRange(seq, cur, 1, Len(seq))

\* min(nc_positions, key=...): the first element with the smallest key
MinByKey(seq, cur) == MinByKeyRange(seq, cur, 1, Len(seq))

\* tuple.index(pos): 0-based position of the first occurrence
TupleIndex(seq, pos) ==
    (CHOOSE i \in 1..Len(seq) :
        seq[i] = pos /\ \A j \in 1..(i - 1) : seq[j] # pos) - 1

current_position(lat, lon) ==
    IF lat # None THEN lat
    ELSE IF lon >= 0 THEN lon ELSE 36000 + lon

approximate_position(nc_positions, lat, lon) ==
    TupleIndex(nc_positions, MinByKey(nc_positions, current_position(lat, lon)))

(***************************************************************************)
(* six_hour_aligned_dates                                                  *)
(***************************************************************************)
RangeLen(n) == IF n < 0 THEN 0 ELSE n

AlignedCount(start, end) == RangeLen((TimedeltaDays(end, start) + 1) * 4)

six_hour_aligned_dates(start, end) ==
    [n \in 1..AlignedCount(start, end) |-> Midnight(start) + (n - 1) * 6]

(***************************************************************************)
(* Command line and trip files                                             *)
(***************************************************************************)
IsDigit(c) == c \in {"0", "1", "2", "3", "4", "5", "6", "7", "8", "9"}

DigitValue(c) ==
    CASE c = "0" -> 0 [] c = "1" -> 1 [] c = "2" -> 2 [] c = "3" -> 3
      [] c = "4" -> 4 [] c = "5" -> 5 [] c = "6" -> 6 [] c = "7" -> 7
      [] c = "8" -> 8 [] c = "9" -> 9

\* "".join(c for c in args.nc_file[0] if c.isdigit())
nc_file_year(nc_file) == SelectSeq(nc_file, IsDigit)

\* int() of a string of decimal digits
RECURSIVE IntOfDigits(_)
IntOfDigits(s) ==
    IF s = <<>> THEN 0
    ELSE 10 * IntOfDigits(SubSeq(s, 1, Len(s) - 1)) + DigitValue(s[Len(s)])

NoMatch == [match |-> FALSE, date |-> 0, lat |-> 0, lon |-> 0]

TripLine(date, loc) == [match |-> TRUE, date |-> date, lat |-> loc[1], lon |-> loc[2]]

(***************************************************************************)
(* Inputs explored: bounded families of command lines and trip files       *)
(***************************************************************************)
MaxDays == 2

\* 2018-11-16 and 2018-12-31, as days since 2018-01-01
TripStartDays == {319, 364}

TripStartHours == {0, 5, 12}

\* hours between two consecutive records (1: an exactly hourly trip)
TripSteps == {0, 1, 2}

\* numbers of records: none, or up to MaxDays days of hourly records
LineCounts ==
    {0} \cup {24 * d + e : d \in 0..(MaxDays - 1), e \in {1, 6, 12, 23, 24}}

LocA == <<4224, 0 - 873>>

LocB == <<4350, 0 - 50>>

LocC == <<4224, 0 - 800>>

\* records after which the trip moves on to its next location
SwitchPoints == {12, 24, 24 * MaxDays}

\* /d/air.2018.nc, /d/air.2019.nc, /d/air.nc, /v2/air.2018.nc
NcFiles ==
    { <<"/", "d", "/", "a", "i", "r", ".", "2", "0", "1", "8", ".", "n", "c">>,
      <<"/", "d", "/", "a", "i", "r", ".", "2", "0", "1", "9", ".", "n", "c">>,
      <<"/", "d", "/", "a", "i", "r", ".", "n", "c">>,
      <<"/", "v", "2", "/", "a", "i", "r", ".", "2", "0", "1", "8", ".", "n", "c">> }

\* a trip of n records from date t0, every step hours, at LocA up to record
\* s1, at LocB up to record s2 and at third from there on
TripRecords(t0, n, step, s1, s2, third) ==
    [i \in 1..n |->
        TripLine(t0 + (i - 1) * step,
                 IF i <= s1 THEN LocA ELSE IF i <= s2 THEN LocB ELSE third)]

TripFiles ==
    { (IF hdr THEN <<NoMatch>> ELSE <<>>)
        \o TripRecords(d * 24 + h, n, step, s1, s2, third) :
        hdr \in BOOLEAN, d \in TripStartDays, h \in TripStartHours,
        n \in LineCounts, step \in TripSteps,
        s1 \in SwitchPoints, s2 \in SwitchPoints, third \in {LocA, LocC} }

(***************************************************************************)
(* main                                                                    *)
(***************************************************************************)
Levels == 0..NC_LEVELS_COUNT

EmptySeries == [l \in Levels |-> <<>>]

NoOutput == [header |-> <<>>, rows |-> <<>>]

Init ==
    /\ pc = "start"
    /\ args \in [nc_file : NcFiles, trip_file : TripFiles]
    /\ line_no = 0
    /\ trip_by_location = <<>>
    /\ trip_by_date = <<>>
    /\ trip_end_date = None
    /\ dataset_opened = FALSE
    /\ nc_data = EmptySeries
    /\ processed_dates = {}
    /\ loc_no = 0
    /\ hourly = EmptySeries
    /\ out_lines = NoOutput
    /\ out_opened = FALSE
    /\ call = <<>>
    /\ ret = None

\* lines 57-59
CheckNcFileYear ==
    /\ pc = "start"
    /\ pc' = IF nc_file_year(args.nc_file) = <<>>
             THEN "ValueError_no_year" ELSE "parse"
    /\ UNCHANGED <<args, line_no, trip_by_location, trip_by_date,
                   trip_end_date, dataset_opened, nc_data, processed_dates,
                   loc_no, hourly, out_lines, out_opened, call, ret>>

\* position (1-based) of the group keyed by (lat, lon), 0 if there is none
LocationIndex(groups, lat, lon) ==
    IF \E i \in 1..Len(groups) : groups[i].lat = lat /\ groups[i].lon = lon
    THEN CHOOSE i \in 1..Len(groups) : groups[i].lat = lat /\ groups[i].lon = lon
    ELSE 0

NewLocation(lat, lon, date) ==
    LET lat_index == approximate_position(NC_LAT, lat, None)
        lon_index == approximate_position(NC_LON, None, lon)
    IN  [lat |-> lat, lon |-> lon,
         nc_lat |-> NC_LAT[lat_index + 1], nc_lon |-> NC_LON[lon_index + 1],
         nc_lat_index |-> lat_index, nc_lon_index |-> lon_index,
         start_date |-> date, end_date |-> date]

\* trip_by_location after lines 75-90
LocationsAfter(groups, lat, lon, date) ==
    LET i == LocationIndex(groups, lat, lon)
    IN  IF i = 0 THEN Append(groups, NewLocation(lat, lon, date))
        ELSE [groups EXCEPT ![i].end_date = date]

\* dict assignment d[key] = value: a new key is appended, an old one keeps
\* its place
DictSet(d, key, value) ==
    IF \E i \in 1..Len(d) : d[i].date = key
    THEN [i \in 1..Len(d) |->
            IF d[i].date = key THEN [date |-> key, loc |-> value] ELSE d[i]]
    ELSE Append(d, [date |-> key, loc |-> value])

\* lines 65-95, one line of the trip file
ParseLine ==
    /\ pc = "parse"
    /\ line_no < Len(args.trip_file)
    /\ LET line == args.trip_file[line_no + 1]
           groups == LocationsAfter(trip_by_location, line.lat, line.lon, line.date)
       IN  IF line.match
           THEN /\ trip_by_location' = groups
                /\ trip_by_date' =
                     DictSet(trip_by_date, line.date,
                             LocationIndex(groups, line.lat, line.lon))
                /\ trip_end_date' = line.date
           ELSE UNCHANGED <<trip_by_location, trip_by_date, trip_end_date>>
    /\ line_no' = line_no + 1
    /\ UNCHANGED <<pc, args, dataset_opened, nc_data, processed_dates, loc_no,
                   hourly, out_lines, out_opened, call, ret>>

\* lines 97-107, at the end of the trip file
CheckTrip ==
    /\ pc = "parse"
    /\ line_no = Len(args.trip_file)
    /\ IF trip_end_date = None
       THEN pc' = "exit_1" /\ UNCHANGED dataset_opened
       ELSE IF Year(trip_end_date) # IntOfDigits(nc_file_year(args.nc_file))
       THEN pc' = "ValueError_boundaries" /\ UNCHANGED dataset_opened
       ELSE pc' = "sample" /\ dataset_opened' = TRUE
    /\ UNCHANGED <<args, line_no, trip_by_location, trip_by_date,
                   trip_end_date, nc_data, processed_dates, loc_no, hourly,
                   out_lines, out_opened, call, ret>>

\* line 119
time_index(date) == tm_yday(date) * 4 - 1

\* lines 120-129: the value appended to every level series for one date;
\* level 0 is lvl_1013, computed from air[0] and air[1]; level l + 1 is air[l]
Sample(level, date, lat_i, lon_i) ==
    [src |-> IF level = 0 THEN "lvl_1013" ELSE "air",
     air_level |-> IF level = 0 THEN 0 ELSE level - 1,
     time_index |-> time_index(date),
     lat_i |-> lat_i, lon_i |-> lon_i, date |-> date]

\* line 116
AlreadyProcessed(date, processed) == date \in processed

\* lines 112-131: the dates of one LocationGroup, from the i-th on
RECURSIVE SampleDates(_, _, _, _, _)
SampleDates(dates, i, loc, data, processed) ==
    IF i > Len(dates) THEN [data |-> data, processed |-> processed]
    ELSE IF AlreadyProcessed(dates[i], processed)
    THEN SampleDates(dates, i + 1, loc, data, processed)
    ELSE SampleDates(dates, i + 1, loc,
            [l \in Levels |->
                Append(data[l],
                       Sample(l, dates[i], loc.nc_lat_index, loc.nc_lon_index))],
            processed \cup {dates[i]})

\* lines 109-131, one LocationGroup
SampleLocation ==
    /\ pc = "sample"
    /\ loc_no < Len(trip_by_location)
    /\ LET loc == trip_by_location[loc_no + 1]
           after == SampleDates(six_hour_aligned_dates(loc.start_date, loc.end_date),
                                1, loc, nc_data, processed_dates)
       IN  /\ nc_data' = after.data
           /\ processed_dates' = after.processed
    /\ loc_no' = loc_no + 1
    /\ UNCHANGED <<pc, args, line_no, trip_by_location, trip_by_date,
                   trip_end_date, dataset_opened, hourly, out_lines,
                   out_opened, call, ret>>

\* a check that rounds the expected count up instead of truncating it
ExpectedSamplesCeil(n) == (n * 4 + 23) \div 24

\* int(len(trip_by_date) / 24 * 4)
ExpectedSamples(n) == (n * 4) \div 24

\* line 134
SanityCheck ==
    /\ pc = "sample"
    /\ loc_no = Len(trip_by_location)
    /\ pc' = IF ExpectedSamples(Len(trip_by_date)) = Len(nc_data[0])
             THEN "interpolate" ELSE "AssertionError"
    /\ UNCHANGED <<args, line_no, trip_by_location, trip_by_date,
                   trip_end_date, dataset_opened, nc_data, processed_dates,
                   loc_no, hourly, out_lines, out_opened, call, ret>>

\* a range that keeps the 5 hours after the last 6-hour sample
x_new_untrimmed(len) == [k \in 1..RangeLen(len * 6) |-> k - 1]

\* line 52: range(len * 6)[:-5], as the sequence of its elements
x_new(len) == [k \in 1..RangeLen(len * 6 - 5) |-> k - 1]

\* lines 45-53: the value of the cubic interpolant of data[level], whose
\* j-th sample (from 0) sits at x = 6 j, at every x of x_new
calc_hourly(data) ==
    [l \in DOMAIN data |->
        [k \in 1..Len(x_new(Len(data[0]))) |->
            [level |-> l, x |-> x_new(Len(data[0]))[k]]]]

\* line 136; a cubic interpolant needs at least 4 points
CalcHourly ==
    /\ pc = "interpolate"
    /\ IF Len(nc_data[0]) < 4
       THEN pc' = "ValueError_interp" /\ UNCHANGED hourly
       ELSE pc' = "write" /\ hourly' = calc_hourly(nc_data)
    /\ UNCHANGED <<args, line_no, trip_by_location, trip_by_date,
                   trip_end_date, dataset_opened, nc_data, processed_dates,
                   loc_no, out_lines, out_opened, call, ret>>

Min(a, b) == IF a < b THEN a ELSE b

\* zip(trip_by_date.items(), *hourly) stops with its shortest argument
ZipLen(items, rows) ==
    LET lens == {Len(rows[l]) : l \in DOMAIN rows}
    IN  Min(Len(items), CHOOSE m \in lens : \A n \in lens : m <= n)

HeaderLine ==
    <<"date", "lat_orig", "lon_orig", "lat_nc", "lon_nc",
      "level_1013", "level_1000">> \o [i \in 1..16 |-> "level_X"]

\* lines 153-157
DataLine(item, groups, levels) ==
    [date |-> item.date,
     lat |-> groups[item.loc].lat, lon |-> groups[item.loc].lon,
     nc_lat |-> groups[item.loc].nc_lat, nc_lon |-> groups[item.loc].nc_lon,
     levels |-> levels]

\* lines 146-158
WriteReport ==
    /\ pc = "write"
    /\ out_opened' = TRUE
    /\ out_lines' =
         [header |-> HeaderLine,
          rows |-> [i \in 1..ZipLen(trip_by_date, hourly) |->
                      DataLine(trip_by_date[i], trip_by_location,
                               [l \in Levels |-> hourly[l][i]])]]
    /\ pc' = "done"
    /\ UNCHANGED <<args, line_no, trip_by_location, trip_by_date,
                   trip_end_date, dataset_opened, nc_data, processed_dates,
                   loc_no, hourly, call, ret>>

Next ==
    \/ CheckNcFileYear
    \/ ParseLine
    \/ CheckTrip
    \/ SampleLocation
    \/ SanityCheck
    \/ CalcHourly
    \/ WriteReport

Spec == Init /\ [][Next]_vars

(***************************************************************************)
(* Single calls of approximate_position, over every query of its range     *)
(***************************************************************************)
LatQueries == (0 - 9000)..9000

LonQueries == (0 - 18000)..18000

Idle ==
    /\ args = [nc_file |-> <<>>, trip_file |-> <<>>]
    /\ line_no = 0
    /\ trip_by_location = <<>>
    /\ trip_by_date = <<>>
    /\ trip_end_date = None
    /\ dataset_opened = FALSE
    /\ nc_data = EmptySeries
    /\ processed_dates = {}
    /\ loc_no = 0
    /\ hourly = EmptySeries
    /\ out_lines = NoOutput
    /\ out_opened = FALSE

InitLocator ==
    /\ pc = "call"
    /\ call \in [lat : LatQueries, lon : {None}]
                  \cup [lat : {None}, lon : LonQueries]
    /\ ret = None
    /\ Idle

CallApproximateLat ==
    /\ pc = "call"
    /\ call.lat # None
    /\ ret' = approximate_position(NC_LAT, call.lat, call.lon)
    /\ pc' = "returned"
    /\ UNCHANGED <<args, line_no, trip_by_location, trip_by_date,
                   trip_end_date, dataset_opened, nc_data, processed_dates,
                   loc_no, hourly, out_lines, out_opened, call>>

CallApproximateLon ==
    /\ pc = "call"
    /\ call.lat = None
    /\ ret' = approximate_position(NC_LON, call.lat, call.lon)
    /\ pc' = "returned"
    /\ UNCHANGED <<args, line_no, trip_by_location, trip_by_date,
                   trip_end_date, dataset_opened, nc_data, processed_dates,
                   loc_no, hourly, out_lines, out_opened, call>>

NextLocator == CallApproximateLat \/ CallApproximateLon

SpecLocator == InitLocator /\ [][NextLocator]_vars

(***************************************************************************)
(* Single calls of six_hour_aligned_dates, over every start <= end within  *)
(* MaxDays + 1 days from 2018-11-16                                        *)
(***************************************************************************)
AlignerDates == {319 * 24 + h : h \in 0..((MaxDays + 1) * 24 - 1)}

InitAligner ==
    /\ pc = "call"
    /\ call \in {c \in [start : AlignerDates, end : AlignerDates] :
                    c.start <= c.end}
    /\ ret = <<>>
    /\ Idle

CallSixHourAlignedDates ==
    /\ pc = "call"
    /\ ret' = six_hour_aligned_dates(call.start, call.end)
    /\ pc' = "returned"
    /\ UNCHANGED <<args, line_no, trip_by_location, trip_by_date,
                   trip_end_date, dataset_opened, nc_data, processed_dates,
                   loc_no, hourly, out_lines, out_opened, call>>

NextAligner == CallSixHourAlignedDates

SpecAligner == InitAligner /\ [][NextAligner]_vars

(***************************************************************************)
(* Vocabulary of the properties                                            *)
(***************************************************************************)
\* hour of the day of a date
Hour(date) == date % 24

Records(file) == SelectSeq(file, LAMBDA r : r.match)

ExactlyHourly(file) ==
    \A i \in 1..(Len(Records(file)) - 1) :
        Records(file)[i + 1].date = Records(file)[i].date + 1

\* the sampling loop has consumed every LocationGroup and the check has run
PastSampling ==
    pc \in {"interpolate", "ValueError_interp", "write", "done", "AssertionError"}

PastCheck == pc \in {"interpolate", "ValueError_interp", "write", "done"}

Terminated ==
    pc \in {"ValueError_no_year", "exit_1", "ValueError_boundaries",
            "AssertionError", "ValueError_interp", "done"}

\* the 00:00, 06:00, 12:00 and 18:00 of every calendar day from the day of
\* start through the day of end
DayCover(start, end) ==
    {24 * d + 6 * q : d \in (start \div 24)..(end \div 24), q \in 0..3}

SeriesDates(l) == {nc_data[l][i].date : i \in 1..Len(nc_data[l])}

\* C1: once every LocationGroup has been sampled, the sampled dates are the
\* union of the groups' day covers, each level series holds exactly one
\* entry per such date, and so all 18 series have the size of that union
C1_SampledUnion ==
    PastSampling =>
        LET union == UNION {DayCover(trip_by_location[g].start_date,
                                     trip_by_location[g].end_date) :
                               g \in 1..Len(trip_by_location)}
        IN  /\ processed_dates = union
            /\ \A l \in Levels :
                  /\ SeriesDates(l) = union
                  /\ Len(nc_data[l]) = Cardinality(union)

\* C2: six_hour_aligned_dates(start, end) yields, in increasing order, the
\* four 6-hour boundaries of every calendar day from the day of start
\* through the day of end
C2_CalendarDays ==
    pc = "returned" =>
        /\ Len(ret) = ((call.end \div 24) - (call.start \div 24) + 1) * 4
        /\ \A n \in 1..Len(ret) : ret[n] = Midnight(call.start) + 6 * (n - 1)
        /\ {ret[n] : n \in 1..Len(ret)} = DayCover(call.start, call.end)

\* C3, as claimed: an exactly hourly trip gets past the consistency check
\* only if 4 times the number of sampled dates is the number of trip samples
C3_FourTimes ==
    (ExactlyHourly(args.trip_file) /\ PastCheck) =>
        Len(nc_data[0]) * 4 = Len(trip_by_date)

\* C3, amended: an exactly hourly trip gets past the consistency check only
\* if floor(N / 6) is the number of sampled dates; otherwise the run has
\* stopped at the check with nothing written
C3_FloorOfSixth ==
    ExactlyHourly(args.trip_file) =>
        /\ PastCheck => Len(trip_by_date) \div 6 = Len(nc_data[0])
        /\ (PastSampling /\ Len(trip_by_date) \div 6 # Len(nc_data[0])) =>
              (pc = "AssertionError" /\ ~out_opened /\ out_lines = NoOutput)

C3_Witness ==
    /\ ExactlyHourly(args.trip_file)
    /\ pc = "done"
    /\ Len(trip_by_date) = 24
    /\ Len(nc_data[0]) = 4

\* C4: a run that reaches the writer with L >= 4 sampled dates has 6L - 5
\* hourly rows, for hours 0..6L-6, and writes min(N, 6L - 5) data rows, the
\* i-th with the i-th trip timestamp and the i-th hourly row; 24 hourly
\* records of one location inside one day give 19 data rows
C4_RowCount ==
    (pc = "done" /\ Len(nc_data[0]) >= 4) =>
        LET L == Len(nc_data[0])
            N == Len(trip_by_date)
            rows == out_lines.rows
        IN  /\ \A l \in Levels :
                  /\ Len(hourly[l]) = 6 * L - 5
                  /\ \A k \in 1..Len(hourly[l]) : hourly[l][k].x = k - 1
            /\ Len(rows) = Min(N, 6 * L - 5)
            /\ \A i \in 1..Len(rows) :
                  /\ rows[i].date = Records(args.trip_file)[i].date
                  /\ \A l \in Levels : rows[i].levels[l] = [level |-> l, x |-> i - 1]
            /\ (/\ Len(trip_by_location) = 1
                /\ Len(Records(args.trip_file)) = 24
                /\ ExactlyHourly(args.trip_file)
                /\ Midnight(Records(args.trip_file)[1].date)
                     = Midnight(Records(args.trip_file)[24].date))
                  => Len(rows) = 19

C4_Witness ==
    /\ pc = "done"
    /\ Len(trip_by_location) = 1
    /\ Len(Records(args.trip_file)) = 24
    /\ Len(nc_data[0]) = 4
    /\ Len(out_lines.rows) = 19

\* C5: in a finished run of an exactly hourly trip, the j-th sample of a
\* series is for 6 j hours after the first sampled date, and data row k
\* carries the trip timestamp that is k hours after the first sampled date
C5_RowsOnTheirHour ==
    (pc = "done" /\ ExactlyHourly(args.trip_file)) =>
        /\ \A j \in 1..Len(nc_data[0]) :
              nc_data[0][j].date = nc_data[0][1].date + 6 * (j - 1)
        /\ \A k \in 1..Len(out_lines.rows) :
              out_lines.rows[k].date
                 = nc_data[0][1].date + out_lines.rows[k].levels[0].x

\* the part of a path after its last "/"
Basename(path) ==
    LET slashes == {i \in 1..Len(path) : path[i] = "/"}
        last == IF slashes = {} THEN 0
                ELSE CHOOSE i \in slashes : \A j \in slashes : j <= i
    IN  SubSeq(path, last + 1, Len(path))

FilenameDigits(path) == SelectSeq(Basename(path), IsDigit)

\* C6: a run opens the dataset exactly when the trip file yielded a record
\* and the year of its last record is the year in the dataset's filename;
\* a run that does not open the dataset writes no output
C6_OpenedIffYearMatches ==
    Terminated =>
        LET recs == Records(args.trip_file)
        IN  /\ dataset_opened <=>
                  /\ recs # <<>>
                  /\ FilenameDigits(args.nc_file) # <<>>
                  /\ Year(recs[Len(recs)].date)
                        = IntOfDigits(FilenameDigits(args.nc_file))
            /\ ~dataset_opened => (~out_opened /\ out_lines = NoOutput)

\* C7: for a latitude q in [-90, 90] the index returned is the smallest one
\* whose lattice latitude is nearest to q, and that latitude is within 1.25
\* degrees of q
C7_LatNearestLowest ==
    (pc = "returned" /\ call.lat # None) =>
        LET d(i) == fabs(NC_LAT[i] - call.lat)
        IN  /\ ret + 1 \in 1..Len(NC_LAT)
            /\ \A j \in 1..Len(NC_LAT) : d(ret + 1) <= d(j)
            /\ \A j \in 1..ret : d(j) > d(ret + 1)
            /\ d(ret + 1) <= 125

\* 88.75 is as near to 90.0 (index 0) as to 87.5 (index 1)
C7_Witness ==
    /\ pc = "returned"
    /\ call.lat = 8875
    /\ ret = 0

\* distance of two longitudes of [0, 360) around the circle
CircularDistance(a, b) == Min(fabs(a - b), 36000 - fabs(a - b))

\* C8: for a longitude in [-180, 180] the grid longitude returned is within
\* 1.25 degrees, around the circle, of the normalised query
C8_LonNearestOnCircle ==
    (pc = "returned" /\ call.lat = None) =>
        CircularDistance(NC_LON[ret + 1],
                         IF call.lon >= 0 THEN call.lon ELSE 36000 + call.lon)
            <= 125

AllSamples == UNION {{nc_data[l][i] : i \in 1..Len(nc_data[l])} : l \in Levels}

\* C9: every sampled date reads the time slice of its own day and hour, 4
\* slices a day, and two distinct dates never read the same slice
C9_OwnTimeSlice ==
    /\ \A s \in AllSamples :
          s.time_index = (tm_yday(s.date) - 1) * 4 + (Hour(s.date) \div 6)
    /\ \A s, t \in AllSamples :
          s.date # t.date => s.time_index # t.time_index

\* C10: in every data row, the samples of the row's calendar day were read
\* at the grid point printed in the row
C10_SampledAtPrintedPoint ==
    pc = "done" =>
        \A k \in 1..Len(out_lines.rows) : \A s \in AllSamples :
            Midnight(s.date) = Midnight(out_lines.rows[k].date) =>
                /\ NC_LAT[s.lat_i + 1] = out_lines.rows[k].nc_lat
                /\ NC_LON[s.lon_i + 1] = out_lines.rows[k].nc_lon

====
